---- MODULE Spec2Model ----
(***************************************************************************)
(* TasteNet-MNL (src/Data/phase8_tastenet_mnl.py): the training loop with  *)
(* early stopping and checkpointing (train_tastenet_mnl), the              *)
(* counterfactual engine (counterfactual_analysis) and the shape           *)
(* behaviour of TasteNetMNL.forward.                                       *)
(*                                                                         *)
(* Three specifications share the variables:                               *)
(*   SpecTrain  one call of train_tastenet_mnl                             *)
(*   SpecCF     one call of counterfactual_analysis                        *)
(*   SpecFwd    one call of TasteNetMNL.forward on tensors of any shape    *)
(***************************************************************************)
EXTENDS Integers, Naturals, Sequences, FiniteSets, TLC

VARIABLES
    \* ---- train_tastenet_mnl ----
    pc,               \* position in the function
    epochs,           \* argument: the epoch budget
    nTrain,           \* len(train_loader)
    nVal,             \* len(val_loader)
    it,               \* position of the iterator of range(epochs)
    epoch,            \* the loop variable (-1 while unbound)
    tIdx,             \* training batches consumed in this epoch
    vIdx,             \* validation batches consumed in this epoch
    train_loss,
    val_loss,
    best_val_loss,
    patience_counter,
    state_dict,       \* model.state_dict(): parameters and buffers
    training,         \* model.training (train/eval mode flag)
    grad_enabled,     \* torch.is_grad_enabled()
    ckpt,             \* the file 'best_tastenet_mnl.pt'
    sched,            \* the ReduceLROnPlateau scheduler
    err,              \* the exception that left the function, if any
    hist,             \* history of the run (observation only)
    \* ---- counterfactual_analysis ----
    cf,               \* locals of counterfactual_analysis
    heap,             \* tensor storage: tensor id -> matrix
    net,              \* numeric parameters and running statistics
    \* ---- TasteNetMNL.forward on arbitrary shapes ----
    fwd               \* locals of forward

vars == <<pc, epochs, nTrain, nVal, it, epoch, tIdx, vIdx, train_loss, val_loss,
          best_val_loss, patience_counter, state_dict, training, grad_enabled,
          ckpt, sched, err, hist, cf, heap, net, fwd>>

\* the variables of train_tastenet_mnl other than the mode flags
trainVars_noGrad == <<pc, epochs, nTrain, nVal, it, epoch, tIdx, vIdx,
                      train_loss, val_loss, best_val_loss, patience_counter,
                      state_dict, ckpt, sched, hist>>

(***************************************************************************)
(* Bounds of the model.                                                    *)
(***************************************************************************)
MaxEpochs == 22
MaxBatches == 2
MaxLoss == 1

(***************************************************************************)
(* Python floats: finite rationals n/d (d > 0), +inf and NaN.              *)
(***************************************************************************)
Fin(n) == [k |-> "fin", n |-> n, d |-> 1]
Inf == [k |-> "inf", n |-> 0, d |-> 1]
NaN == [k |-> "nan", n |-> 0, d |-> 1]

\* a < b on floats: every comparison with NaN is False
FloatLess(a, b) ==
    IF a.k = "nan" \/ b.k = "nan" THEN FALSE
    ELSE IF a.k = "inf" THEN FALSE
    ELSE IF b.k = "inf" THEN TRUE
    ELSE a.n * b.d < b.n * a.d

\* a == b on floats (NaN equals nothing)
FloatEq(a, b) ==
    IF a.k = "nan" \/ b.k = "nan" THEN FALSE
    ELSE IF a.k = "inf" \/ b.k = "inf" THEN a.k = b.k
    ELSE a.n * b.d = b.n * a.d

\* a + b on floats (losses are >= 0, so inf + x never meets -inf)
FloatAdd(a, b) ==
    IF a.k = "nan" \/ b.k = "nan" THEN NaN
    ELSE IF a.k = "inf" \/ b.k = "inf" THEN Inf
    ELSE [k |-> "fin", n |-> a.n * b.d + b.n * a.d, d |-> a.d * b.d]

\* the values loss.item() can take: a finite NLL >= 0, inf (a log-probability
\* of -inf) or NaN (diverged parameters)
LossValues == {Fin(n) : n \in 0..MaxLoss} \cup {Inf, NaN}

\* the training loss is only averaged and printed and decides nothing: one
\* finite value stands for it
TrainLossValues == {Fin(1)}

\* variant with IEEE division: x / 0 is a value (PyTrueDiv below), no error
DivNeverRaises(x, n) == FALSE
\* x / n for a Python number x and an int n: Python raises ZeroDivisionError
\* when n = 0 instead of producing inf or NaN
PyDivRaises(x, n) == n = 0

PyTrueDiv(x, n) ==
    IF n = 0 THEN (IF x.k = "fin" /\ x.n = 0 THEN NaN
                   ELSE IF x.k = "nan" THEN NaN ELSE Inf)
    ELSE IF x.k = "fin" THEN [k |-> "fin", n |-> x.n, d |-> x.d * n]
    ELSE x

(***************************************************************************)
(* train_tastenet_mnl                                                      *)
(***************************************************************************)
\* early-stopping patience: the literal of line 188
patience_stop == 20
\* ReduceLROnPlateau(optimizer, patience=10), line 146
sched_patience == 10

\* the state_dict of the model passed in, and one left in the checkpoint file
\* by an earlier run; optimizer steps of this run produce v = 1, 2, ...
InitialStateDict == [run |-> "this", v |-> 0]
StaleStateDict == [run |-> "prev", v |-> 0]

\* optimizer.step() after loss.backward(): new parameters (and, in training
\* mode, the forward pass has moved the BatchNorm running statistics)
OptimizerStep(sd) == [sd EXCEPT !.v = @ + 1]

NoCkpt == [present |-> FALSE, sd |-> InitialStateDict]
TorchSave(sd) == [present |-> TRUE, sd |-> sd]

\* line 182: val_loss < best_val_loss
Improves(v, best) == FloatLess(v, best)

\* variant of line 188 with > for >=
StopsOneLate(p) == p > patience_stop
\* line 188: patience_counter >= 20
ShouldStop(p) == p >= patience_stop

\* variant in which model.eval() leaves the model in training mode
EvalLeavesTraining == TRUE
\* model.train() / model.eval(): the value given to model.training
TrainMode == TRUE
EvalMode == FALSE

\* ReduceLROnPlateau.step(metrics): mode 'min', relative threshold 1e-4,
\* factor 0.1, no cooldown. On the loss grid of the model "better than best
\* by the threshold" is "strictly less than best"; lr = initial_lr * 0.1^cuts.
SchedulerStep(s, metric) ==
    LET better == FloatLess(metric, s.best)
        bad == IF better THEN 0 ELSE s.num_bad_epochs + 1
        cut == bad > sched_patience
    IN [best |-> IF better THEN metric ELSE s.best,
        num_bad_epochs |-> IF cut THEN 0 ELSE bad,
        cuts |-> IF cut THEN s.cuts + 1 ELSE s.cuts]

\* Order used to name "the epoch with the minimum validation loss": finite
\* losses by value, below inf, below NaN.
MathLess(a, b) ==
    /\ a.k # "nan"
    /\ \/ b.k = "nan"
       \/ FloatLess(a, b)

\* the history after an epoch that ended with validation loss v and
\* parameters sd
RecordEpoch(h, v, sd) ==
    IF h.n = 0
    THEN [h EXCEPT !.n = 1, !.minLoss = v, !.minSd = sd, !.loss0 = v, !.sd0 = sd]
    ELSE [h EXCEPT !.n = @ + 1,
                   !.minLoss = IF MathLess(v, h.minLoss) THEN v ELSE @,
                   !.minSd = IF MathLess(v, h.minLoss) THEN sd ELSE @,
                   !.later = @ \/ MathLess(v, h.loss0)]

InitHist == [n |-> 0, minLoss |-> NaN, minSd |-> InitialStateDict,
             loss0 |-> NaN, sd0 |-> InitialStateDict, later |-> FALSE,
             valPasses |-> 0, writes |-> 0, ckLoss |-> NaN, reads |-> 0,
             prevBest |-> Inf]

EpochBudgets == {0, 1, 2, MaxEpochs}

IdleCF == [pc |-> "idle"]
IdleFwd == [pc |-> "idle"]
IdleNet == [beta |-> 0]
IdleHeap == <<>>

\* lines 145-150: optimizer, scheduler, best_val_loss, patience_counter
InitTrain ==
    /\ pc = "loop"
    /\ epochs \in EpochBudgets
    /\ nTrain \in 0..MaxBatches
    /\ nVal \in 0..MaxBatches
    /\ it = 0
    /\ epoch = -1
    /\ tIdx = 0
    /\ vIdx = 0
    /\ train_loss = Fin(0)
    /\ val_loss = Fin(0)
    /\ best_val_loss = Inf
    /\ patience_counter = 0
    /\ state_dict = InitialStateDict
    /\ training \in BOOLEAN
    /\ grad_enabled = TRUE
    /\ ckpt \in {NoCkpt, TorchSave(StaleStateDict)}
    /\ sched = [best |-> Inf, num_bad_epochs |-> 0, cuts |-> 0]
    /\ err = "none"
    /\ hist = InitHist
    /\ cf = IdleCF
    /\ heap = IdleHeap
    /\ net = IdleNet
    /\ fwd = IdleFwd

\* line 152-155: next epoch of range(epochs); model.train(); train_loss = 0
EpochBegin ==
    /\ pc = "loop"
    /\ it < epochs
    /\ epoch' = it
    /\ it' = it + 1
    /\ training' = TrainMode
    /\ train_loss' = Fin(0)
    /\ tIdx' = 0
    /\ pc' = "train"
    /\ UNCHANGED <<epochs, nTrain, nVal, vIdx, val_loss, best_val_loss,
                   patience_counter, state_dict, grad_enabled, ckpt, sched,
                   err, hist, cf, heap, net, fwd>>

\* line 152: range(epochs) is exhausted
LoopExhausted ==
    /\ pc = "loop"
    /\ it >= epochs
    /\ pc' = "load"
    /\ UNCHANGED <<epochs, nTrain, nVal, it, epoch, tIdx, vIdx, train_loss,
                   val_loss, best_val_loss, patience_counter, state_dict,
                   training, grad_enabled, ckpt, sched, err, hist, cf, heap,
                   net, fwd>>

\* lines 156-162: one training batch
TrainBatch ==
    /\ pc = "train"
    /\ tIdx < nTrain
    /\ \E loss \in TrainLossValues :
          train_loss' = FloatAdd(train_loss, loss)
    /\ state_dict' = OptimizerStep(state_dict)
    /\ tIdx' = tIdx + 1
    /\ UNCHANGED <<pc, epochs, nTrain, nVal, it, epoch, vIdx, val_loss,
                   best_val_loss, patience_counter, training, grad_enabled,
                   ckpt, sched, err, hist, cf, heap, net, fwd>>

\* lines 165-167: model.eval(); val_loss = 0; with torch.no_grad():
ValidationBegin ==
    /\ pc = "train"
    /\ tIdx >= nTrain
    /\ training' = EvalMode
    /\ val_loss' = Fin(0)
    /\ grad_enabled' = FALSE
    /\ vIdx' = 0
    /\ pc' = "validate"
    /\ UNCHANGED <<epochs, nTrain, nVal, it, epoch, tIdx, train_loss,
                   best_val_loss, patience_counter, state_dict, ckpt, sched,
                   err, hist, cf, heap, net, fwd>>

\* lines 168-171: one validation batch
ValBatch ==
    /\ pc = "validate"
    /\ vIdx < nVal
    /\ \E loss \in LossValues :
          val_loss' = FloatAdd(val_loss, loss)
    /\ vIdx' = vIdx + 1
    /\ UNCHANGED <<pc, epochs, nTrain, nVal, it, epoch, tIdx, train_loss,
                   best_val_loss, patience_counter, state_dict, training,
                   grad_enabled, ckpt, sched, err, hist, cf, heap, net, fwd>>

\* line 171 -> 173: the validation loader is exhausted, the no_grad block ends
ValidationEnd ==
    /\ pc = "validate"
    /\ vIdx >= nVal
    /\ grad_enabled' = TRUE
    /\ hist' = [hist EXCEPT !.valPasses = @ + 1]
    /\ pc' = "average"
    /\ UNCHANGED <<epochs, nTrain, nVal, it, epoch, tIdx, vIdx, train_loss,
                   val_loss, best_val_loss, patience_counter, state_dict,
                   training, ckpt, sched, err, cf, heap, net, fwd>>

\* lines 173-174: train_loss /= len(train_loader); val_loss /= len(val_loader)
Average ==
    /\ pc = "average"
    /\ ~ PyDivRaises(train_loss, nTrain)
    /\ ~ PyDivRaises(val_loss, nVal)
    /\ train_loss' = PyTrueDiv(train_loss, nTrain)
    /\ val_loss' = PyTrueDiv(val_loss, nVal)
    /\ pc' = "sched"
    /\ UNCHANGED <<epochs, nTrain, nVal, it, epoch, tIdx, vIdx, best_val_loss,
                   patience_counter, state_dict, training, grad_enabled, ckpt,
                   sched, err, hist, cf, heap, net, fwd>>

\* lines 173-174: one of the two divisions raises ZeroDivisionError
AverageRaises ==
    /\ pc = "average"
    /\ PyDivRaises(train_loss, nTrain) \/ PyDivRaises(val_loss, nVal)
    /\ train_loss' = IF PyDivRaises(train_loss, nTrain) THEN train_loss
                     ELSE PyTrueDiv(train_loss, nTrain)
    /\ err' = "ZeroDivisionError"
    /\ pc' = "raised"
    /\ UNCHANGED <<epochs, nTrain, nVal, it, epoch, tIdx, vIdx, val_loss,
                   best_val_loss, patience_counter, state_dict, training,
                   grad_enabled, ckpt, sched, hist, cf, heap, net, fwd>>

\* line 176: scheduler.step(val_loss)
SchedulerUpdate ==
    /\ pc = "sched"
    /\ sched' = SchedulerStep(sched, val_loss)
    /\ pc' = "decide"
    /\ UNCHANGED <<epochs, nTrain, nVal, it, epoch, tIdx, vIdx, train_loss,
                   val_loss, best_val_loss, patience_counter, state_dict,
                   training, grad_enabled, ckpt, err, hist, cf, heap, net, fwd>>

\* lines 182-185: the validation loss improved: new best, checkpoint written
DecideImproved ==
    /\ pc = "decide"
    /\ Improves(val_loss, best_val_loss)
    /\ best_val_loss' = val_loss
    /\ patience_counter' = 0
    /\ ckpt' = TorchSave(state_dict)
    /\ hist' = [RecordEpoch(hist, val_loss, state_dict)
                  EXCEPT !.writes = @ + 1, !.ckLoss = val_loss,
                         !.prevBest = best_val_loss]
    /\ pc' = "loop"
    /\ UNCHANGED <<epochs, nTrain, nVal, it, epoch, tIdx, vIdx, train_loss,
                   val_loss, state_dict, training, grad_enabled, sched, err,
                   cf, heap, net, fwd>>

\* lines 186-188: no improvement, patience left: next epoch
DecideWait ==
    /\ pc = "decide"
    /\ ~ Improves(val_loss, best_val_loss)
    /\ ~ ShouldStop(patience_counter + 1)
    /\ patience_counter' = patience_counter + 1
    /\ hist' = [RecordEpoch(hist, val_loss, state_dict)
                  EXCEPT !.prevBest = best_val_loss]
    /\ pc' = "loop"
    /\ UNCHANGED <<epochs, nTrain, nVal, it, epoch, tIdx, vIdx, train_loss,
                   val_loss, best_val_loss, state_dict, training, grad_enabled,
                   ckpt, sched, err, cf, heap, net, fwd>>

\* lines 186-190: no improvement, patience used up: break
DecideStop ==
    /\ pc = "decide"
    /\ ~ Improves(val_loss, best_val_loss)
    /\ ShouldStop(patience_counter + 1)
    /\ patience_counter' = patience_counter + 1
    /\ hist' = [RecordEpoch(hist, val_loss, state_dict)
                  EXCEPT !.prevBest = best_val_loss]
    /\ pc' = "load"
    /\ UNCHANGED <<epochs, nTrain, nVal, it, epoch, tIdx, vIdx, train_loss,
                   val_loss, best_val_loss, state_dict, training, grad_enabled,
                   ckpt, sched, err, cf, heap, net, fwd>>

\* lines 193-194: model.load_state_dict(torch.load(...)); return model
LoadBest ==
    /\ pc = "load"
    /\ ckpt.present
    /\ state_dict' = ckpt.sd
    /\ hist' = [hist EXCEPT !.reads = @ + 1]
    /\ pc' = "returned"
    /\ UNCHANGED <<epochs, nTrain, nVal, it, epoch, tIdx, vIdx, train_loss,
                   val_loss, best_val_loss, patience_counter, training,
                   grad_enabled, ckpt, sched, err, cf, heap, net, fwd>>

\* line 193: torch.load of a file that does not exist
LoadMissing ==
    /\ pc = "load"
    /\ ~ ckpt.present
    /\ err' = "FileNotFoundError"
    /\ pc' = "raised"
    /\ UNCHANGED <<epochs, nTrain, nVal, it, epoch, tIdx, vIdx, train_loss,
                   val_loss, best_val_loss, patience_counter, state_dict,
                   training, grad_enabled, ckpt, sched, hist, cf, heap, net,
                   fwd>>

NextTrain ==
    \/ EpochBegin
    \/ LoopExhausted
    \/ TrainBatch
    \/ ValidationBegin
    \/ ValBatch
    \/ ValidationEnd
    \/ Average
    \/ AverageRaises
    \/ SchedulerUpdate
    \/ DecideImproved
    \/ DecideWait
    \/ DecideStop
    \/ LoadBest
    \/ LoadMissing

SpecTrain == InitTrain /\ [][NextTrain]_vars
(***************************************************************************)
(* TasteNetMNL on numbers.  Tensors are matrices m[i][j] with Python's     *)
(* 0-based indices.  Utilities live on an integer grid and exp is taken to *)
(* base 2 in fixed point with FracBits fractional bits, so that, as in     *)
(* float32, a probability far enough below the row maximum underflows to   *)
(* exactly 0.  credit_access is stored in units of 1/RateDen, which makes  *)
(* the product with (1 - closure_rate), closure_rate = r/RateDen, exact.   *)
(***************************************************************************)
\* the main script's dimensions, lines 306-308
x_dim == 5
z_dim == 2
n_alternatives == 9

MaxIndividuals == 2
RateDen == 2
FracBits == 6

\* lines 262 and 267
se_alts == {1, 4, 7}
branch_alts == {6, 7, 8}

Alts == 0..(n_alternatives - 1)

RECURSIVE SumRange(_, _, _)
\* f[lo] + ... + f[hi]
SumRange(f, lo, hi) == IF lo > hi THEN 0 ELSE f[lo] + SumRange(f, lo + 1, hi)

RECURSIVE MaxRange(_, _, _)
MaxRange(f, lo, hi) ==
    IF lo >= hi THEN f[lo]
    ELSE LET m == MaxRange(f, lo + 1, hi) IN IF f[lo] > m THEN f[lo] ELSE m

Rows(m) == DOMAIN m
NRows(m) == Cardinality(DOMAIN m)

\* (X @ W)[i][c] for W with x rows
MatMul(x, w, i, c) == SumRange([k \in DOMAIN x[i] |-> x[i][k] * w[k][c]], 0, Cardinality(DOMAIN x[i]) - 1)

\* lines 59-60, 117: TasteNet collapsed to one affine unit followed by one
\* normalisation: the batch statistic in training mode, the running statistic
\* in evaluation mode (dropout is the identity in evaluation mode)
PreAct(n, x, i) == SumRange([k \in DOMAIN x[i] |-> x[i][k] * n.w[k]], 0, Cardinality(DOMAIN x[i]) - 1)

BatchMean(n, x) == SumRange([i \in Rows(x) |-> PreAct(n, x, i)], 0, NRows(x) - 1) \div NRows(x)

TasteNetForward(n, mode, x) ==
    LET mean == IF mode THEN BatchMean(n, x) ELSE n.running_mean
    IN [i \in Rows(x) |-> n.b + PreAct(n, x, i) - mean]

\* the buffers of BatchNorm1d after a forward pass: moved in training mode
\* (with or without gradients), untouched in evaluation mode
BNUpdate(n, mode, x) ==
    IF mode
    THEN [n EXCEPT !.running_mean = BatchMean(n, x),
                   !.num_batches_tracked = @ + 1]
    ELSE n

\* lines 106-123: V = V_base + V_infra + V_credit, column 0 of the linear
\* terms pinned to 0
Utility(n, mode, x, z, credit, se) ==
    LET gamma == TasteNetForward(n, mode, x)
    IN [i \in Rows(x) |->
          [j \in Alts |->
              (IF j = 0 THEN 0 ELSE RateDen * MatMul(x, n.beta, i, j - 1))
            + (IF j = 0 THEN 0 ELSE RateDen * MatMul(z, n.delta, i, j - 1))
            + gamma[i] * credit[i][j] * se[i][j]]]

\* 2^(FracBits + d) for d <= 0, flushed to 0 below the last fractional bit
ExpFix(d) == IF -d > FracBits THEN 0 ELSE 2 ^ (FracBits + d)

\* lines 126, 134: exp(log_softmax(V, dim=1)), in units of 2^-FracBits
Softmax(v) ==
    [i \in Rows(v) |->
        LET top == MaxRange(v[i], 0, n_alternatives - 1)
            e == [j \in Alts |-> ExpFix(v[i][j] - top)]
            total == SumRange(e, 0, n_alternatives - 1)
        IN [j \in Alts |-> (e[j] * 2 ^ FracBits) \div total]]

\* lines 130-134
predict_proba(n, mode, x, z, credit, se) == Softmax(Utility(n, mode, x, z, credit, se))

\* lines 263, 271: probs[:, se_alts].sum(dim=1).mean().item(), as the exact
\* fraction num / (rows * 2^FracBits)
SERate(probs) ==
    [num |-> SumRange([i \in Rows(probs) |->
                          SumRange([j \in Alts |-> IF j \in se_alts THEN probs[i][j] ELSE 0],
                                   0, n_alternatives - 1)],
                      0, NRows(probs) - 1),
     den |-> NRows(probs) * 2 ^ FracBits]

\* variant without .clone(): credit_cf names the caller's tensor
CloneAliases(h, id) == [heap |-> h, id |-> id]
\* line 266: credit_access.clone() allocates a new tensor
Clone(h, id) == [heap |-> Append(h, h[id]), id |-> Len(h) + 1]

\* variant without the column index: credit_cf *= (1 - closure_rate)
ScaleAllColumns(m, cols, r) ==
    [i \in Rows(m) |-> [j \in DOMAIN m[i] |-> (m[i][j] * (RateDen - r)) \div RateDen]]
\* line 268: credit_cf[:, branch_alts] *= (1 - closure_rate), in place
ScaleColumns(m, cols, r) ==
    [i \in Rows(m) |->
        [j \in DOMAIN m[i] |->
            IF j \in cols THEN (m[i][j] * (RateDen - r)) \div RateDen ELSE m[i][j]]]

\* variant with IEEE division: a zero baseline yields inf or NaN
EffectNeverRaises(base) == FALSE
\* line 273: (se_rate_cf - se_rate_base) / se_rate_base * 100 on Python
\* floats: the division raises ZeroDivisionError when se_rate_base == 0.0
EffectRaises(base) == base.num = 0

Effect(base, cfr) == [num |-> (cfr.num - base.num) * 100, den |-> base.num]

(***************************************************************************)
(* Inputs of counterfactual_analysis                                       *)
(***************************************************************************)
ZeroX == [k \in 0..(x_dim - 1) |-> 0]
UnitX == [k \in 0..(x_dim - 1) |-> IF k = 0 THEN 1 ELSE 0]
XRows == {ZeroX, UnitX}
ZRows == {[k \in 0..(z_dim - 1) |-> 0], [k \in 0..(z_dim - 1) |-> IF k = 1 THEN 1 ELSE 0]}

\* the tiers of the main script (lines 314-316): unbanked 0, mobile partial,
\* branch full; a row with no access at all; a row with access everywhere
TierRow == [j \in Alts |-> IF j >= 6 THEN 2 * RateDen ELSE IF j >= 3 THEN RateDen ELSE 0]
CreditRows == {TierRow, [j \in Alts |-> 0], [j \in Alts |-> RateDen]}

\* line 320 and an indicator that flags nothing
SERows == {[j \in Alts |-> IF j \in {1, 4, 7} THEN 1 ELSE 0], [j \in Alts |-> 0]}

ZeroBeta == [k \in 0..(x_dim - 1) |-> [c \in 0..(n_alternatives - 2) |-> 0]]
ZeroDelta == [k \in 0..(z_dim - 1) |-> [c \in 0..(n_alternatives - 2) |-> 0]]
\* demographics that make self-employment hopeless for X[0] = 1
HopelessBeta ==
    [k \in 0..(x_dim - 1) |->
        [c \in 0..(n_alternatives - 2) |->
            IF k = 0 /\ (c + 1) \in {1, 4, 7} THEN -(FracBits + 2) ELSE 0]]
TiltDelta ==
    [k \in 0..(z_dim - 1) |-> [c \in 0..(n_alternatives - 2) |-> IF k = 1 /\ c = 0 THEN 1 ELSE 0]]

Nets ==
    {[beta |-> ZeroBeta, delta |-> ZeroDelta, w |-> ZeroX, b |-> 0,
      running_mean |-> 0, num_batches_tracked |-> 0],
     [beta |-> ZeroBeta, delta |-> TiltDelta, w |-> UnitX, b |-> 1,
      running_mean |-> 0, num_batches_tracked |-> 3],
     [beta |-> HopelessBeta, delta |-> ZeroDelta, w |-> ZeroX, b |-> 0,
      running_mean |-> 1, num_batches_tracked |-> 3]}

\* the caller's tensors in the heap
XId == 1
ZId == 2
CreditId == 3
SEId == 4

IdleTrain ==
    /\ pc = "idle"
    /\ epochs = 0 /\ nTrain = 0 /\ nVal = 0 /\ it = 0 /\ epoch = -1
    /\ tIdx = 0 /\ vIdx = 0
    /\ train_loss = Fin(0) /\ val_loss = Fin(0) /\ best_val_loss = Inf
    /\ patience_counter = 0
    /\ state_dict = InitialStateDict
    /\ ckpt = NoCkpt
    /\ sched = [best |-> Inf, num_bad_epochs |-> 0, cuts |-> 0]
    /\ hist = InitHist

InitCF ==
    /\ IdleTrain
    /\ fwd = IdleFwd
    /\ err = "none"
    /\ training \in BOOLEAN
    /\ grad_enabled = TRUE
    /\ net \in Nets
    /\ \E n \in 1..MaxIndividuals :
       \E x \in [0..(n - 1) -> XRows], zr \in ZRows,
          c \in [0..(n - 1) -> CreditRows], sr \in SERows :
          heap = << x, [i \in 0..(n - 1) |-> zr], c, [i \in 0..(n - 1) |-> sr] >>
    /\ \E r \in 0..RateDen :
          cf = [pc |-> "eval", closure_rate |-> r, credit_cf |-> 0,
                se_rate_base |-> [num |-> 0, den |-> 1],
                se_rate_cf |-> [num |-> 0, den |-> 1],
                effect |-> [num |-> 0, den |-> 1],
                net0 |-> net, heap0 |-> heap, mode0 |-> training]

\* line 257, 259: model.eval(); with torch.no_grad():
CFEval ==
    /\ cf.pc = "eval"
    /\ training' = EvalMode
    /\ grad_enabled' = FALSE
    /\ cf' = [cf EXCEPT !.pc = "base"]
    /\ UNCHANGED <<trainVars_noGrad, err, heap, net, fwd>>

\* lines 261-263: baseline probabilities and SE rate
CFBaseline ==
    /\ cf.pc = "base"
    /\ net' = BNUpdate(net, training, heap[XId])
    /\ cf' = [cf EXCEPT
                !.pc = "clone",
                !.se_rate_base = SERate(predict_proba(net, training, heap[XId],
                                     heap[ZId], heap[CreditId], heap[SEId]))]
    /\ UNCHANGED <<trainVars_noGrad, grad_enabled, training, err, heap, fwd>>

\* line 266: credit_cf = credit_access.clone()
CFClone ==
    /\ cf.pc = "clone"
    /\ heap' = Clone(heap, CreditId).heap
    /\ cf' = [cf EXCEPT !.pc = "scale", !.credit_cf = Clone(heap, CreditId).id]
    /\ UNCHANGED <<trainVars_noGrad, grad_enabled, training, err, net, fwd>>

\* lines 267-268: scale the branch columns of credit_cf in place
CFScale ==
    /\ cf.pc = "scale"
    /\ heap' = [heap EXCEPT ![cf.credit_cf] = ScaleColumns(@, branch_alts, cf.closure_rate)]
    /\ cf' = [cf EXCEPT !.pc = "cfprob"]
    /\ UNCHANGED <<trainVars_noGrad, grad_enabled, training, err, net, fwd>>

\* lines 270-271: counterfactual probabilities and SE rate
CFCounterfactual ==
    /\ cf.pc = "cfprob"
    /\ net' = BNUpdate(net, training, heap[XId])
    /\ cf' = [cf EXCEPT
                !.pc = "effect",
                !.se_rate_cf = SERate(predict_proba(net, training, heap[XId],
                                   heap[ZId], heap[cf.credit_cf], heap[SEId]))]
    /\ UNCHANGED <<trainVars_noGrad, grad_enabled, training, err, heap, fwd>>

\* lines 273-280: the percent change; the no_grad block ends; return
CFEffect ==
    /\ cf.pc = "effect"
    /\ ~ EffectRaises(cf.se_rate_base)
    /\ cf' = [cf EXCEPT !.pc = "returned",
                        !.effect = Effect(cf.se_rate_base, cf.se_rate_cf)]
    /\ grad_enabled' = TRUE
    /\ UNCHANGED <<trainVars_noGrad, training, err, heap, net, fwd>>

\* line 273: the division raises; the no_grad block is left by the exception
CFEffectRaises ==
    /\ cf.pc = "effect"
    /\ EffectRaises(cf.se_rate_base)
    /\ cf' = [cf EXCEPT !.pc = "raised"]
    /\ err' = "ZeroDivisionError"
    /\ grad_enabled' = TRUE
    /\ UNCHANGED <<trainVars_noGrad, training, heap, net, fwd>>

NextCF ==
    \/ CFEval
    \/ CFBaseline
    \/ CFClone
    \/ CFScale
    \/ CFCounterfactual
    \/ CFEffect
    \/ CFEffectRaises

SpecCF == InitCF /\ [][NextCF]_vars

(***************************************************************************)
(* TasteNetMNL.forward on shapes.  A 2-D tensor is its shape               *)
(* <<rows, columns>>; every operation either yields a shape or raises.     *)
(***************************************************************************)
MaxBatch == 3

\* torch broadcasting of two 2-D shapes: per dimension equal, or one is 1
Broadcastable(a, b) ==
    \A d \in 1..2 : a[d] = b[d] \/ a[d] = 1 \/ b[d] = 1

BroadcastShape(a, b) ==
    <<IF a[1] > b[1] THEN a[1] ELSE b[1], IF a[2] > b[2] THEN a[2] ELSE b[2]>>

\* a @ b: the inner dimensions must agree
MatMulOk(a, b) == a[2] = b[1]
MatMulShape(a, b) == <<a[1], b[2]>>

\* torch.cat([a, b], dim=1): the row counts must agree
CatOk(a, b) == a[1] = b[1]
CatShape(a, b) == <<a[1], a[2] + b[2]>>

\* lines 82, 85: the shapes of beta and delta
BetaShape == <<x_dim, n_alternatives - 1>>
DeltaShape == <<z_dim, n_alternatives - 1>>

\* BatchNorm1d in training mode refuses a batch of one row
BatchNormOk(mode, x) == ~ (mode /\ x[1] = 1)

ShapesX == {<<r, c>> : r \in 1..MaxBatch, c \in {x_dim, z_dim}}
ShapesZ == {<<r, c>> : r \in 1..MaxBatch, c \in {z_dim, x_dim}}
ShapesAlt == {<<r, c>> : r \in 1..MaxBatch,
                          c \in {1, n_alternatives - 1, n_alternatives}}
NoShape == <<0, 0>>

InitFwd ==
    /\ IdleTrain
    /\ cf = IdleCF
    /\ heap = IdleHeap
    /\ net = IdleNet
    /\ err = "none"
    /\ training \in BOOLEAN
    /\ grad_enabled = TRUE
    /\ \E x \in ShapesX, z \in ShapesZ, c \in ShapesAlt, s \in ShapesAlt :
          fwd = [pc |-> "base", X |-> x, Z |-> z, credit_access |-> c,
                 se_indicator |-> s, V_base |-> NoShape, V_infra |-> NoShape,
                 gamma_i |-> NoShape, V_credit |-> NoShape, V |-> NoShape,
                 log_probs |-> NoShape]

FwdFrame == UNCHANGED <<trainVars_noGrad, training, grad_enabled, cf, heap, net>>

\* lines 106-110: V_base = cat([zeros(batch_size, 1), X @ beta], dim=1)
FwdBase ==
    /\ fwd.pc = "base"
    /\ MatMulOk(fwd.X, BetaShape)
    /\ CatOk(<<fwd.X[1], 1>>, MatMulShape(fwd.X, BetaShape))
    /\ fwd' = [fwd EXCEPT !.pc = "infra",
                 !.V_base = CatShape(<<fwd.X[1], 1>>, MatMulShape(fwd.X, BetaShape))]
    /\ UNCHANGED err
    /\ FwdFrame

FwdBaseRaises ==
    /\ fwd.pc = "base"
    /\ ~ MatMulOk(fwd.X, BetaShape)
    /\ fwd' = [fwd EXCEPT !.pc = "raised"]
    /\ err' = "RuntimeError"
    /\ FwdFrame

\* lines 113-114: V_infra = cat([zeros(batch_size, 1), Z @ delta], dim=1)
FwdInfra ==
    /\ fwd.pc = "infra"
    /\ MatMulOk(fwd.Z, DeltaShape)
    /\ CatOk(<<fwd.X[1], 1>>, MatMulShape(fwd.Z, DeltaShape))
    /\ fwd' = [fwd EXCEPT !.pc = "taste",
                 !.V_infra = CatShape(<<fwd.X[1], 1>>, MatMulShape(fwd.Z, DeltaShape))]
    /\ UNCHANGED err
    /\ FwdFrame

FwdInfraRaises ==
    /\ fwd.pc = "infra"
    /\ \/ ~ MatMulOk(fwd.Z, DeltaShape)
       \/ ~ CatOk(<<fwd.X[1], 1>>, MatMulShape(fwd.Z, DeltaShape))
    /\ fwd' = [fwd EXCEPT !.pc = "raised"]
    /\ err' = "RuntimeError"
    /\ FwdFrame

\* line 117: gamma_i = self.tastenet(X), [batch, 1]
FwdTaste ==
    /\ fwd.pc = "taste"
    /\ BatchNormOk(training, fwd.X)
    /\ fwd' = [fwd EXCEPT !.pc = "credit", !.gamma_i = <<fwd.X[1], 1>>]
    /\ UNCHANGED err
    /\ FwdFrame

FwdTasteRaises ==
    /\ fwd.pc = "taste"
    /\ ~ BatchNormOk(training, fwd.X)
    /\ fwd' = [fwd EXCEPT !.pc = "raised"]
    /\ err' = "ValueError"
    /\ FwdFrame

\* line 120: V_credit = gamma_i * credit_access * se_indicator
FwdCredit ==
    /\ fwd.pc = "credit"
    /\ Broadcastable(fwd.gamma_i, fwd.credit_access)
    /\ Broadcastable(BroadcastShape(fwd.gamma_i, fwd.credit_access), fwd.se_indicator)
    /\ fwd' = [fwd EXCEPT !.pc = "sum",
                 !.V_credit = BroadcastShape(BroadcastShape(fwd.gamma_i, fwd.credit_access),
                                             fwd.se_indicator)]
    /\ UNCHANGED err
    /\ FwdFrame

FwdCreditRaises ==
    /\ fwd.pc = "credit"
    /\ \/ ~ Broadcastable(fwd.gamma_i, fwd.credit_access)
       \/ ~ Broadcastable(BroadcastShape(fwd.gamma_i, fwd.credit_access), fwd.se_indicator)
    /\ fwd' = [fwd EXCEPT !.pc = "raised"]
    /\ err' = "RuntimeError"
    /\ FwdFrame

\* line 123: V = V_base + V_infra + V_credit
FwdSum ==
    /\ fwd.pc = "sum"
    /\ Broadcastable(BroadcastShape(fwd.V_base, fwd.V_infra), fwd.V_credit)
    /\ fwd' = [fwd EXCEPT !.pc = "softmax",
                 !.V = BroadcastShape(BroadcastShape(fwd.V_base, fwd.V_infra), fwd.V_credit)]
    /\ UNCHANGED err
    /\ FwdFrame

FwdSumRaises ==
    /\ fwd.pc = "sum"
    /\ ~ Broadcastable(BroadcastShape(fwd.V_base, fwd.V_infra), fwd.V_credit)
    /\ fwd' = [fwd EXCEPT !.pc = "raised"]
    /\ err' = "RuntimeError"
    /\ FwdFrame

\* lines 126-128: log_probs = log_softmax(V, dim=1); return log_probs, gamma_i
FwdSoftmax ==
    /\ fwd.pc = "softmax"
    /\ fwd' = [fwd EXCEPT !.pc = "returned", !.log_probs = fwd.V]
    /\ UNCHANGED err
    /\ FwdFrame

NextFwd ==
    \/ FwdBase
    \/ FwdBaseRaises
    \/ FwdInfra
    \/ FwdInfraRaises
    \/ FwdTaste
    \/ FwdTasteRaises
    \/ FwdCredit
    \/ FwdCreditRaises
    \/ FwdSum
    \/ FwdSumRaises
    \/ FwdSoftmax

SpecFwd == InitFwd /\ [][NextFwd]_vars

(***************************************************************************)
(* Properties of train_tastenet_mnl                                        *)
(***************************************************************************)
InEpoch == pc \in {"train", "validate", "average", "sched", "decide"}

\* C1: when the function returns after at least one epoch (budget >= 1), the
\* model holds the parameters of the end of the epoch with the minimum
\* validation loss (the earliest one on ties).
C1_ReturnsBestEpoch ==
    (pc = "returned" /\ epochs >= 1) => state_dict = hist.minSd

\* C2: once an epoch has completed, best_val_loss has not increased, the
\* checkpoint slot holds the parameters of the epoch that attained
\* best_val_loss, and the checkpoint returned has a validation loss no worse
\* than epoch 0's and is epoch 0's when no later epoch improved on epoch 0.
C2_CheckpointIsBest ==
    /\ ~ FloatLess(hist.prevBest, best_val_loss)
    /\ (hist.n >= 1 /\ pc # "raised") =>
          /\ ckpt.present
          /\ ckpt.sd.run = "this"
          /\ FloatEq(hist.ckLoss, best_val_loss)
    /\ (pc = "returned" /\ hist.n >= 1) =>
          /\ ~ MathLess(hist.loss0, hist.ckLoss)
          /\ (~ hist.later => state_dict = hist.sd0)

\* what the decision step of an epoch does to the counter and the loop
C3_StepRule ==
    IF pc = "decide"
    THEN IF FloatLess(val_loss, best_val_loss)
         THEN patience_counter' = 0 /\ pc' = "loop"
         ELSE /\ patience_counter' = patience_counter + 1
              /\ pc' = (IF patience_counter' >= patience_stop THEN "load" ELSE "loop")
    ELSE patience_counter' = patience_counter

\* what the counter allows in each position of the function
C3_StateRule ==
    /\ InEpoch => patience_counter < patience_stop
    /\ patience_counter <= patience_stop
    /\ pc \in {"load", "returned"} => (it >= epochs \/ patience_counter = patience_stop)
    /\ (pc = "loop" /\ it < epochs) => patience_counter < patience_stop

\* C3: the patience counter is reset to 0 by every improving epoch and
\* incremented by every other epoch; the loop is left by break exactly when
\* the counter reaches patience_stop; no epoch runs with the counter at
\* patience_stop; and the loop ends only with the budget exhausted or the
\* counter at patience_stop.
C3_EarlyStopping == [] C3_StateRule /\ [][C3_StepRule]_vars

\* an early stop: the loop was left with budget remaining, after a checkpoint
C3_Witness ==
    /\ pc = "load"
    /\ it < epochs
    /\ patience_counter = patience_stop
    /\ hist.writes >= 1

\* C4: once a validation pass has yielded zero batches the run is aborted by
\* ZeroDivisionError in that same (first) epoch: no validation loss value is
\* produced, nothing is checkpointed, no model is returned.
C4_EmptyValidationAborts ==
    (nVal = 0 /\ hist.valPasses >= 1) =>
        /\ pc \in {"average", "raised"}
        /\ pc = "raised" => err = "ZeroDivisionError"
        /\ val_loss = Fin(0)
        /\ epoch = 0
        /\ hist.writes = 0
        /\ hist.reads = 0

C4_Witness ==
    /\ pc = "raised"
    /\ err = "ZeroDivisionError"
    /\ nVal = 0
    /\ nTrain >= 1
    /\ hist.valPasses = 1

\* the moves of the position that the phase order allows
PhaseOrder ==
    {<<"loop", "train">>, <<"train", "validate">>, <<"validate", "average">>,
     <<"average", "sched">>, <<"average", "raised">>, <<"sched", "decide">>,
     <<"decide", "loop">>, <<"decide", "load">>, <<"loop", "load">>,
     <<"load", "returned">>, <<"load", "raised">>}

\* what each step may change, and in which mode
C9_StepRule ==
    /\ pc' # pc =>
          /\ <<pc, pc'>> \in PhaseOrder
          /\ pc = "train" => tIdx = nTrain
          /\ pc = "validate" => vIdx = nVal
    /\ (state_dict' # state_dict /\ pc # "load") => (training /\ grad_enabled)
    /\ val_loss' # val_loss => pc \in {"train", "validate", "average"}
    /\ vIdx' = vIdx + 1 => (~ training /\ ~ grad_enabled)
    /\ sched' # sched => pc = "sched"
    /\ (ckpt' # ckpt \/ patience_counter' # patience_counter) => pc = "decide"

\* the mode of the model in the two batch loops
C9_StateRule ==
    /\ pc = "train" => (training /\ grad_enabled)
    /\ pc = "validate" => (~ training /\ ~ grad_enabled)

\* C9: within an epoch the phases follow train -> validate -> average ->
\* scheduler -> decision, each loader being consumed whole; training batches
\* (optimizer steps) run in training mode only, validation batches in
\* evaluation mode with gradients disabled only.
C9_PhaseOrder == [] C9_StateRule /\ [][C9_StepRule]_vars

\* a second epoch at its decision point, both loaders consumed whole
C9_Witness ==
    /\ pc = "decide"
    /\ epoch = 1
    /\ nTrain = MaxBatches /\ tIdx = nTrain
    /\ nVal >= 1 /\ vIdx = nVal
    /\ ~ training
    /\ state_dict.v = 2 * nTrain

\* C10: whatever the budget and the losses, a returning run has read the
\* checkpoint exactly once and restored parameters that this run wrote at an
\* improving epoch.
C10_RestoresOwnCheckpoint ==
    /\ pc # "returned" => hist.reads = 0
    /\ pc = "returned" =>
          /\ hist.reads = 1
          /\ hist.writes >= 1
          /\ state_dict.run = "this"
(***************************************************************************)
(* Properties of counterfactual_analysis                                   *)
(***************************************************************************)
CFAfterScale == cf.pc \in {"cfprob", "effect", "returned", "raised"}
CFAfterRates == cf.pc \in {"effect", "returned", "raised"}

\* C5: with a baseline SE rate of exactly 0 the call ends in
\* ZeroDivisionError and returns no percent change; every returned percent
\* change has a nonzero denominator.
C5_ZeroBaselineRaises ==
    /\ (cf.pc \in {"returned", "raised"} /\ cf.se_rate_base.num = 0) =>
          (cf.pc = "raised" /\ err = "ZeroDivisionError")
    /\ cf.pc = "returned" => cf.effect.den # 0

C5_Witness ==
    /\ cf.pc = "raised"
    /\ cf.se_rate_base.num = 0
    /\ err = "ZeroDivisionError"

\* C6: throughout the call the parameters and buffers of the model and the
\* caller's X, Z, credit_access and se_indicator keep the values they had on
\* entry; only the private copy differs.
C6_FrameOfCounterfactual ==
    cf.pc # "idle" =>
        /\ net = cf.net0
        /\ \A id \in {XId, ZId, CreditId, SEId} : heap[id] = cf.heap0[id]
        /\ CFAfterScale => cf.credit_cf \notin {XId, ZId, CreditId, SEId}

\* a call entered in training mode: the copy has been perturbed and both
\* probability passes have run
C6_Witness ==
    /\ cf.pc = "returned"
    /\ cf.closure_rate > 0
    /\ heap[cf.credit_cf] # heap[CreditId]
    /\ cf.mode0

\* C7: after the perturbation credit_cf equals credit_access outside columns
\* 6, 7, 8 and credit_access * (1 - closure_rate) in them; with closure_rate
\* 0 the tensors and the two SE rates are equal and a returned effect is 0;
\* with closure_rate 1 columns 6, 7, 8 are exactly 0.
C7_PerturbsBranchColumnsOnly ==
    CFAfterScale =>
        LET base == heap[CreditId]
            pert == heap[cf.credit_cf]
            r == cf.closure_rate
        IN /\ DOMAIN pert = DOMAIN base
           /\ \A i \in DOMAIN base : \A j \in Alts :
                 IF j \in {6, 7, 8}
                 THEN pert[i][j] * RateDen = base[i][j] * (RateDen - r)
                 ELSE pert[i][j] = base[i][j]
           /\ r = 0 =>
                 /\ pert = base
                 /\ CFAfterRates => cf.se_rate_cf = cf.se_rate_base
                 /\ cf.pc = "returned" => cf.effect.num = 0
           /\ r = RateDen =>
                 \A i \in DOMAIN base : \A j \in {6, 7, 8} : pert[i][j] = 0

\* full closure of a tensor with branch access, changing the SE rate
C7_Witness ==
    /\ cf.pc = "returned"
    /\ cf.closure_rate = RateDen
    /\ \E i \in DOMAIN heap[CreditId] : heap[CreditId][i][7] > 0
    /\ \E i \in DOMAIN heap[CreditId] : heap[CreditId][i][4] > 0
    /\ cf.se_rate_cf.num < cf.se_rate_base.num

(***************************************************************************)
(* Properties of TasteNetMNL.forward                                       *)
(***************************************************************************)
\* C8: forward returns log-probabilities only when X, Z, credit_access and
\* se_indicator have the same number of rows and credit_access and
\* se_indicator have exactly n_alternatives columns.
C8_ForwardRejectsBadShapes ==
    fwd.pc = "returned" =>
        /\ fwd.Z[1] = fwd.X[1]
        /\ fwd.credit_access[1] = fwd.X[1]
        /\ fwd.se_indicator[1] = fwd.X[1]
        /\ fwd.credit_access[2] = n_alternatives
        /\ fwd.se_indicator[2] = n_alternatives
====
